---- MODULE Spec2Model ----
(***************************************************************************)
(* Model of the keepassxc-cli session daemon (keepasxcli_wrapper/server.py) *)
(*                                                                         *)
(* The daemon owns one pexpect channel to the external tool and serves     *)
(* one-request-per-connection clients from an asyncio unix-socket server.  *)
(* Handler._handler is a coroutine: it runs on the single event-loop       *)
(* thread and gives the loop back only at its two awaits (readuntil and    *)
(* drain).  Each action below is one synchronous stretch of the handler,   *)
(* cut at every channel operation (sendline / result) so that the          *)
(* interleaving of channel traffic is visible.                             *)
(*                                                                         *)
(* Text is a sequence of one-character strings; a fixed message literal    *)
(* is kept as one atom.                                                    *)
(***************************************************************************)
EXTENDS Integers, Sequences, FiniteSets, TLC

\* ------------------------------------------------------------------ bounds
\* number of client connections the listener is offered in one run
MaxConn == 3

Conns == 1 .. MaxConn

\* ------------------------------------------------- protocol constants
OPEN == <<"o", "p", "e", "n">>
QUIT == <<"q", "u", "i", "t">>
CLOSE == <<"c", "l", "o", "s", "e">>
FILTERED_ENTRIES == <<"l", "o", "c", "a", "t", "e", "_", "c", "a", "c", "h", "e", "d">>

\* pexpect's line terminator, used to join response lines
crlf == <<"\r", "\n">>

\* the command _refresh_cache sends
LS == <<"l", "s">>

\* ------------------------------------------------------- text helpers
Space == " "

\* str.startswith
StartsWith(s, p) ==
    /\ Len(p) <= Len(s)
    /\ SubSeq(s, 1, Len(p)) = p

\* index of the first / last non-blank character, 0 when all blank
FirstNonBlank(s) ==
    IF \E i \in 1 .. Len(s) : s[i] # Space
    THEN CHOOSE i \in 1 .. Len(s) :
            /\ s[i] # Space
            /\ \A j \in 1 .. (i - 1) : s[j] = Space
    ELSE 0

LastNonBlank(s) ==
    IF \E i \in 1 .. Len(s) : s[i] # Space
    THEN CHOOSE i \in 1 .. Len(s) :
            /\ s[i] # Space
            /\ \A j \in (i + 1) .. Len(s) : s[j] = Space
    ELSE 0

\* str.strip
Strip(s) ==
    IF FirstNonBlank(s) = 0 THEN << >>
    ELSE SubSeq(s, FirstNonBlank(s), LastNonBlank(s))

LowerChar(c) ==
    CASE c = "G" -> "g"
      [] c = "H" -> "h"
      [] c = "O" -> "o"
      [] c = "E" -> "e"
      [] c = "R" -> "r"
      [] c = "V" -> "v"
      [] OTHER -> c

\* str.lower
Lower(s) == [i \in 1 .. Len(s) |-> LowerChar(s[i])]

\* Variant of RFind giving the first occurrence (str.find)
FindFirst(s, c) ==
    IF \E i \in 1 .. Len(s) : s[i] = c
    THEN CHOOSE i \in 1 .. Len(s) :
            /\ s[i] = c
            /\ \A j \in 1 .. (i - 1) : s[j] # c
    ELSE 0

\* str.rfind of one character: 1-based position of its last occurrence,
\* 0 when absent (Python: 0-based, -1 when absent)
RFind(s, c) ==
    IF \E i \in 1 .. Len(s) : s[i] = c
    THEN CHOOSE i \in 1 .. Len(s) :
            /\ s[i] = c
            /\ \A j \in (i + 1) .. Len(s) : s[j] # c
    ELSE 0

\* sep.join(parts)
RECURSIVE Join(_, _)
Join(sep, parts) ==
    IF parts = << >> THEN << >>
    ELSE IF Len(parts) = 1 THEN parts[1]
    ELSE parts[1] \o sep \o Join(sep, Tail(parts))

\* term in e  (substring containment)
Contains(term, e) ==
    \E i \in 1 .. (Len(e) - Len(term) + 1) :
        SubSeq(e, i, i + Len(term) - 1) = term

\* ---------------------------------------------- Entry Cache & Matcher
Min(a, b) == IF a <= b THEN a ELSE b

\* difflib.SequenceMatcher.find_longest_match without junk: the longest
\* common block <<i, j, k>> (a[i..i+k-1] = b[j..j+k-1]); among the longest
\* the one starting earliest in a, then earliest in b; <<0, 0, 0>> if none
LongestMatch(a, b) ==
    LET cands == {c \in (1 .. Len(a)) \X (1 .. Len(b)) \X (1 .. Min(Len(a), Len(b))) :
                    /\ c[1] + c[3] - 1 <= Len(a)
                    /\ c[2] + c[3] - 1 <= Len(b)
                    /\ SubSeq(a, c[1], c[1] + c[3] - 1) = SubSeq(b, c[2], c[2] + c[3] - 1)}
    IN  IF cands = {} THEN <<0, 0, 0>>
        ELSE CHOOSE c \in cands : \A d \in cands :
                \/ c[3] > d[3]
                \/ /\ c[3] = d[3]
                   /\ \/ c[1] < d[1]
                      \/ (c[1] = d[1] /\ c[2] <= d[2])

\* total size of SequenceMatcher.get_matching_blocks (Ratcliff/Obershelp)
RECURSIVE Matches(_, _)
Matches(a, b) ==
    LET m == LongestMatch(a, b)
    IN  IF m[3] = 0 THEN 0
        ELSE m[3]
             + Matches(SubSeq(a, 1, m[1] - 1), SubSeq(b, 1, m[2] - 1))
             + Matches(SubSeq(a, m[1] + m[3], Len(a)), SubSeq(b, m[2] + m[3], Len(b)))

\* SequenceMatcher(None, a, b).ratio() as the fraction <<num, den>>
Ratio(a, b) ==
    IF Len(a) + Len(b) = 0 THEN <<1, 1>>
    ELSE <<2 * Matches(a, b), Len(a) + Len(b)>>

\* the sort key of an entry for a term, as the fraction <<num, den>>
sort_entry_filter_key(term, entry) ==
    IF term = entry THEN <<1, 1>>
    ELSE IF StartsWith(entry, term)
         THEN <<9 * Len(entry) + 1, 10 * Len(entry)>>
         ELSE Ratio(term, entry)

\* p < q on fractions with positive denominators
FracLess(p, q) == p[1] * q[2] < q[1] * p[2]

\* sorted(xs, key=sort_entry_filter_key(term), reverse=True): descending by
\* key, entries with equal keys kept in their original order
RECURSIVE SortedByKey(_, _)
SortedByKey(term, xs) ==
    IF xs = << >> THEN << >>
    ELSE LET n    == Len(xs)
             init == SortedByKey(term, SubSeq(xs, 1, n - 1))
             x    == xs[n]
             kx   == sort_entry_filter_key(term, x)
             \* x goes before the first element with a strictly smaller key
             lower == {p \in 1 .. Len(init) :
                          FracLess(sort_entry_filter_key(term, init[p]), kx)}
             pos  == IF lower = {} THEN Len(init) + 1
                     ELSE CHOOSE p \in lower : \A q \in lower : p <= q
         IN  SubSeq(init, 1, pos - 1) \o <<x>> \o SubSeq(init, pos, Len(init))

\* Variant of FilterEntries that keeps only the entries starting with term
FilterEntriesPrefix(term, es) == SelectSeq(es, LAMBDA e : StartsWith(e, term))

\* filter(lambda e: term in e, self.entries)
FilterEntries(term, es) == SelectSeq(es, LAMBDA e : Contains(term, e))

\* Handler.get_filtered_entries
get_filtered_entries(term, es) ==
    Join(crlf, SortedByKey(term, FilterEntries(term, es)))

\* ------------------------------------------------------ Session Channel
\* Handler.result applied to the chunks read before quiescence: the text
\* before the last '>' of the first chunk, and the chunks after the first
result(chunks) ==
    [db    |-> IF chunks # << >> /\ RFind(chunks[1], ">") > 0
               THEN SubSeq(chunks[1], 1, RFind(chunks[1], ">") - 1)
               ELSE << >>,
     lines |-> IF chunks = << >> THEN << >> ELSE Tail(chunks)]

\* [e.strip().lower() for e in entries]
Normalize(lines) == [i \in 1 .. Len(lines) |-> Lower(Strip(lines[i]))]

\* What the external tool may print between a sendline and quiescence
\* (the first chunk carries the pending prompt and the echoed command).
BlockSilent == << >>
BlockOpen == << <<"v", ">", " ", "l", "s">>, <<" ", "G", "h", " ">>, <<"g", "o">> >>
BlockNoDb == << <<">", " ", "l", "s">> >>
BlockNested == << <<"v", ">", "g", ">", " ">>, <<"g">> >>
Blocks == {BlockSilent, BlockOpen, BlockNoDb, BlockNested}

\* Request lines a client may send (before decode().strip())
Requests ==
    { <<"o", "p", "e", "n", " ", "v">>,
      <<" ", "q", "u", "i", "t", " ">>,
      <<"c", "l", "o", "s", "e">>,
      FILTERED_ENTRIES \o <<" ", "G">>,
      <<"p", "w">> }

\* ------------------------------------------------------------- state
VARIABLES
    process,               \* Handler.process: "alive", or "none" after quit()
    waiting_for_password,  \* Handler.waiting_for_password
    db_name,               \* Handler.db_name
    entries,               \* Handler.entries, the entry cache
    daemon,                \* "serving", or "exited" once exit() was called
    running,               \* the handler the event loop is executing, 0 if none
    pc,                    \* where each connection's handler stands
    data,                  \* the request line of each handler, stripped
    mode,                  \* the branch of _handler the request took
    response,              \* the response text each handler computed
    wire,                  \* what became of the response on the socket
    sent,                  \* the line last written to the channel, << >> if none
    inflight,              \* handlers whose sent line has no block read yet
    closer,                \* the handler whose request closed the session, 0 if none
    args                   \* arguments and outcome of the call a specification
                           \* examines on its own; NoArgs while the daemon serves

vars == <<process, waiting_for_password, db_name, entries, daemon, running,
          pc, data, mode, response, wire, sent, inflight, closer>>

allvars == <<vars, args>>

NoArgs == [call |-> "none"]

\* fixed response texts
MsgOpenUnsupported == <<"Open is not supported. Close or quit database instead.">>
MsgQuit == <<"Database is closed">>
MsgClosed == <<"Database is closed.">>
MsgWrongPassword == <<"Database could not be opened. Probably wrong password.">>
MsgSuccess(name) == <<"SUCCESS: Database ">> \o name \o <<" is now open">>

\* Variants of SuspendedAt with one more await: between call_command's
\* sendline and its result(), and between the dispatch and writer.write
SuspendedAtAsyncRead == {"new", "reading", "draining", "cmd_sent"}

SuspendedAtBeforeWrite == {"new", "reading", "draining", "respond"}

\* Points of _handler at which the coroutine is suspended and the event
\* loop runs other callbacks: before accept, in `await reader.readuntil()`
\* and in
\* `await writer.drain()`.  Everything else runs without interruption.
SuspendedAt == {"new", "reading", "draining"}

Finished == {"done", "failed"}

\* The handler may take its next step: a suspended handler is resumed
\* only when the loop is free, a running one keeps the loop.  While a
\* handler is suspended the loop may run any other callback; the order in
\* which the loop serves connections is left open.
Turn(h) ==
    /\ daemon = "serving"
    /\ IF pc[h] \in SuspendedAt THEN running = 0 ELSE running = h

\* Variant of Holder in which a handler that has ended keeps the loop
HolderKeepsLoop(h, p) == IF p \in SuspendedAt THEN 0 ELSE h

\* who holds the event loop once h stands at p
Holder(h, p) == IF p \in SuspendedAt \cup Finished THEN 0 ELSE h

Init ==
    /\ process = "alive"
    /\ waiting_for_password = TRUE
    /\ db_name = << >>
    /\ entries = << >>
    /\ daemon = "serving"
    /\ running = 0
    /\ pc = [h \in Conns |-> "new"]
    /\ data = [h \in Conns |-> << >>]
    /\ mode = [h \in Conns |-> "none"]
    /\ response = [h \in Conns |-> << >>]
    /\ wire = [h \in Conns |-> "none"]
    /\ sent = << >>
    /\ inflight = << >>
    /\ closer = 0

\* process.sendline(text) issued by handler h from the method `via`
Sendline(h, via, text) ==
    /\ sent' = <<[by |-> h, via |-> via, text |-> text]>>
    /\ inflight' = Append(inflight, h)

\* the handler moves to p
Goto(h, p) ==
    /\ pc' = [pc EXCEPT ![h] = p]
    /\ running' = Holder(h, p)
    /\ UNCHANGED args

\* Variants of Branch: the verbs tested before waiting_for_password; every
\* non-verb line handed to set_password; the 'open' test missing
BranchVerbsFirst(d) ==
    IF process = "none" THEN "closed"
    ELSE IF StartsWith(d, OPEN) THEN "open"
    ELSE IF StartsWith(d, QUIT) \/ StartsWith(d, CLOSE) THEN "quit"
    ELSE IF StartsWith(d, FILTERED_ENTRIES) THEN "locate"
    ELSE IF waiting_for_password THEN "password"
    ELSE "command"

BranchPasswordFallback(d) ==
    IF process = "none" THEN "closed"
    ELSE IF waiting_for_password THEN "password"
    ELSE IF StartsWith(d, OPEN) THEN "open"
    ELSE IF StartsWith(d, QUIT) \/ StartsWith(d, CLOSE) THEN "quit"
    ELSE IF StartsWith(d, FILTERED_ENTRIES) THEN "locate"
    ELSE "password"

BranchNoOpen(d) ==
    IF process = "none" THEN "closed"
    ELSE IF waiting_for_password THEN "password"
    ELSE IF StartsWith(d, QUIT) \/ StartsWith(d, CLOSE) THEN "quit"
    ELSE IF StartsWith(d, FILTERED_ENTRIES) THEN "locate"
    ELSE "command"

\* the if/elif chain of _handler: which branch serves request line d
Branch(d) ==
    IF process = "none" THEN "closed"
    ELSE IF waiting_for_password THEN "password"
    ELSE IF StartsWith(d, OPEN) THEN "open"
    ELSE IF StartsWith(d, QUIT) \/ StartsWith(d, CLOSE) THEN "quit"
    ELSE IF StartsWith(d, FILTERED_ENTRIES) THEN "locate"
    ELSE "command"

\* data[len(FILTERED_ENTRIES):].strip().lower()
Term(d) == Lower(Strip(SubSeq(d, Len(FILTERED_ENTRIES) + 1, Len(d))))

\* Variant of PasswordOutcome that reports success whatever the prompt
PasswordOutcomeAlwaysOpen(name) ==
    [open |-> TRUE, waiting |-> FALSE, response |-> MsgSuccess(name)]

\* what set_password decides once _refresh_cache has set db_name to name
PasswordOutcome(name) ==
    IF name # << >>
    THEN [open |-> TRUE, waiting |-> FALSE, response |-> MsgSuccess(name)]
    ELSE [open |-> FALSE, waiting |-> waiting_for_password, response |-> MsgWrongPassword]

\* the handler ends at p (returned, raised, or exited the daemon): its
\* locals are gone
Finish(h, p) ==
    /\ Goto(h, p)
    /\ data' = [data EXCEPT ![h] = << >>]
    /\ mode' = [mode EXCEPT ![h] = "none"]
    /\ response' = [response EXCEPT ![h] = << >>]

\* The listener accepts the next connection and starts its handler.
Accept(h) ==
    /\ Turn(h)
    /\ pc[h] = "new"
    /\ \A k \in Conns : k < h => pc[k] # "new"
    /\ Goto(h, "reading")
    /\ UNCHANGED <<process, waiting_for_password, db_name, entries, daemon,
                   data, mode, response, wire, sent, inflight, closer>>

\* The client closes before a full line: readuntil() raises
\* IncompleteReadError and the handler ends.
Disconnect(h) ==
    /\ Turn(h)
    /\ pc[h] = "reading"
    /\ Finish(h, "failed")
    /\ UNCHANGED <<process, waiting_for_password, db_name, entries, daemon,
                   wire, sent, inflight, closer>>

\* Handler.quit as part of a step of h: sendline('quit'), close, process = None
Quit(h) ==
    /\ sent' = <<[by |-> h, via |-> "quit", text |-> QUIT]>>
    /\ inflight' = << >>
    /\ process' = "none"
    /\ closer' = h

\* readuntil() completes with the request line; the handler strips it and takes
\* the branch of the chain, up to the first channel operation of the branch.
Dispatch(h, line) ==
    /\ Turn(h)
    /\ pc[h] = "reading"
    /\ data' = [data EXCEPT ![h] = Strip(line)]
    /\ LET d == Strip(line)
           b == Branch(d)
       IN
        /\ mode' = [mode EXCEPT ![h] = b]
        /\ CASE b = "closed" ->
                  /\ response' = [response EXCEPT ![h] = MsgClosed]
                  /\ Goto(h, "respond")
                  /\ UNCHANGED <<process, sent, inflight, closer>>
             [] b = "password" ->
                  \* set_password sends only while waiting_for_password;
                  \* otherwise it returns None and None.encode() raises
                  IF waiting_for_password
                  THEN /\ Sendline(h, "set_password", d)
                       /\ Goto(h, "pw_sent")
                       /\ UNCHANGED <<process, response, closer>>
                  ELSE /\ Goto(h, "failed")
                       /\ UNCHANGED <<process, response, sent, inflight, closer>>
             [] b = "open" ->
                  /\ response' = [response EXCEPT ![h] = MsgOpenUnsupported]
                  /\ Goto(h, "respond")
                  /\ UNCHANGED <<process, sent, inflight, closer>>
             [] b = "quit" ->
                  /\ Quit(h)
                  /\ response' = [response EXCEPT ![h] = MsgQuit]
                  /\ Goto(h, "respond")
             [] b = "locate" ->
                  /\ response' = [response EXCEPT ![h] =
                                    get_filtered_entries(Term(d), entries)]
                  /\ Goto(h, "respond")
                  /\ UNCHANGED <<process, sent, inflight, closer>>
             [] b = "command" ->
                  /\ Sendline(h, "call_command", d)
                  /\ Goto(h, "cmd_sent")
                  /\ UNCHANGED <<process, response, closer>>
    /\ UNCHANGED <<waiting_for_password, db_name, entries, daemon, wire>>

\* self.process.expect on a process that is None raises AttributeError
ChannelGone(h) ==
    /\ process = "none"
    /\ Finish(h, "failed")
    /\ UNCHANGED <<process, waiting_for_password, db_name, entries, daemon,
                   wire, sent, inflight, closer>>

\* set_password: self.result() after the password line; the block is dropped
SetPasswordResult(h, b) ==
    /\ Turn(h)
    /\ pc[h] = "pw_sent"
    /\ \/ ChannelGone(h)
       \/ /\ process = "alive"
          /\ inflight' = << >>
          /\ Goto(h, "pw_read")
          /\ UNCHANGED <<process, waiting_for_password, db_name, entries, daemon,
                         data, mode, response, wire, sent, closer>>

\* set_password: _refresh_cache sends 'ls'
SetPasswordRefresh(h) ==
    /\ Turn(h)
    /\ pc[h] = "pw_read"
    /\ Sendline(h, "_refresh_cache", LS)
    /\ Goto(h, "pw_ls_sent")
    /\ UNCHANGED <<process, waiting_for_password, db_name, entries, daemon,
                   data, mode, response, wire, closer>>

\* set_password: _refresh_cache reads the listing block b, then the
\* password is accepted or the session is quit
SetPasswordDecide(h, b) ==
    /\ Turn(h)
    /\ pc[h] = "pw_ls_sent"
    /\ \/ ChannelGone(h)
       \/ /\ process = "alive"
          /\ LET r == result(b)
                 o == PasswordOutcome(r.db)
             IN  /\ db_name' = r.db
                 /\ entries' = Normalize(r.lines)
                 /\ waiting_for_password' = o.waiting
                 /\ response' = [response EXCEPT ![h] = o.response]
                 /\ IF o.open
                    THEN /\ inflight' = << >>
                         /\ UNCHANGED <<process, sent, closer>>
                    ELSE Quit(h)
          /\ Goto(h, "respond")
          /\ UNCHANGED <<daemon, data, mode, wire>>

\* call_command: self.result() reads block b; the lines are joined
CallCommandResult(h, b) ==
    /\ Turn(h)
    /\ pc[h] = "cmd_sent"
    /\ \/ ChannelGone(h)
       \/ /\ process = "alive"
          /\ inflight' = << >>
          /\ response' = [response EXCEPT ![h] = Join(crlf, result(b).lines)]
          /\ Goto(h, "respond")
          /\ UNCHANGED <<process, waiting_for_password, db_name, entries, daemon,
                         data, mode, wire, sent, closer>>

\* line 137 encodes the response; line 139 hands a str to writer.write
Encoded(h) == mode[h] # "closed"

\* Only the output of the external tool and the joined matches are of
\* unbounded size; a fixed message never exceeds the transport's
\* high-water mark, so writing it cannot pause the protocol.
CanPause(h) == mode[h] \in {"command", "locate"}

\* what writer.write can do with the bytes: hand them all to the socket,
\* keep part in the transport buffer above the high-water mark, or fail
\* because the client is gone (the transport starts closing)
WriteOutcomes(h) ==
    {"delivered", "broken"} \cup (IF CanPause(h) THEN {"buffered"} ELSE {})

\* where the handler stands after `await writer.drain()` is reached with
\* write outcome w: drain returns at once unless the protocol is paused or
\* the transport is closing
AfterWrite(w) == IF w = "delivered" THEN "drained" ELSE "draining"

\* writer.write(response) and the call of writer.drain()
Respond(h) ==
    /\ Turn(h)
    /\ pc[h] = "respond"
    /\ IF Encoded(h)
       THEN \E w \in WriteOutcomes(h) :
               /\ wire' = [wire EXCEPT ![h] = w]
               /\ Goto(h, AfterWrite(w))
               /\ UNCHANGED <<data, mode, response>>
       ELSE \* TypeError: data argument must be a bytes-like object
            /\ Finish(h, "failed")
            /\ UNCHANGED wire
    /\ UNCHANGED <<process, waiting_for_password, db_name, entries, daemon,
                   sent, inflight, closer>>

\* drain() is resumed: the buffer was flushed, or the connection is lost
\* and drain raises ConnectionResetError
DrainResume(h) ==
    /\ Turn(h)
    /\ pc[h] = "draining"
    /\ \/ /\ wire[h] = "buffered"
          /\ wire' = [wire EXCEPT ![h] = "delivered"]
          /\ Goto(h, "drained")
          /\ UNCHANGED <<data, mode, response>>
       \/ /\ wire' = [wire EXCEPT ![h] = "broken"]
          /\ Finish(h, "failed")
    /\ UNCHANGED <<process, waiting_for_password, db_name, entries, daemon,
                   sent, inflight, closer>>

\* writer.close(), then lines 143-146: refresh the cache if the process
\* is there, otherwise exit the daemon
Post(h) ==
    /\ Turn(h)
    /\ pc[h] = "drained"
    /\ IF process = "alive"
       THEN /\ Sendline(h, "_refresh_cache", LS)
            /\ Goto(h, "post_ls_sent")
            /\ UNCHANGED <<daemon, data, mode, response>>
       ELSE /\ daemon' = "exited"
            /\ Finish(h, "done")
            /\ UNCHANGED <<sent, inflight>>
    /\ UNCHANGED <<process, waiting_for_password, db_name, entries,
                   wire, closer>>

\* _refresh_cache after the response: the listing block b replaces
\* db_name and the cache
PostRefreshed(h, b) ==
    /\ Turn(h)
    /\ pc[h] = "post_ls_sent"
    /\ \/ ChannelGone(h)
       \/ /\ process = "alive"
          /\ db_name' = result(b).db
          /\ entries' = Normalize(result(b).lines)
          /\ inflight' = << >>
          /\ Finish(h, "done")
          /\ UNCHANGED <<process, waiting_for_password, daemon,
                         wire, sent, closer>>

Next ==
    \E h \in Conns :
        \/ Accept(h)
        \/ Disconnect(h)
        \/ \E line \in Requests : Dispatch(h, line)
        \/ \E b \in Blocks : SetPasswordResult(h, b)
        \/ SetPasswordRefresh(h)
        \/ \E b \in Blocks : SetPasswordDecide(h, b)
        \/ \E b \in Blocks : CallCommandResult(h, b)
        \/ Respond(h)
        \/ DrainResume(h)
        \/ Post(h)
        \/ \E b \in Blocks : PostRefreshed(h, b)

\* the daemon from the constructed Handler on
Constructed == Init /\ args = NoArgs

Spec == Constructed /\ [][Next]_allvars

\* ------------------------------------- the matcher examined on its own
\* how many lines the listing of a database has at most
MaxEntries == 2

\* lines the tool may print for 'ls'
ListingPool ==
    { <<" ", "G", "h", " ">>,
      <<"g", "o">>,
      <<"g">>,
      << >>,
      <<"h", "g">>,
      <<"g", "i", "t", "h", "u", "b", "2">>,
      <<"2", "g", "i", "t", "h", "u", "b">> }

Listings == UNION {[1 .. n -> ListingPool] : n \in 0 .. MaxEntries}

\* locate requests a client may send (before decode().strip())
LocateRequests ==
    { FILTERED_ENTRIES,
      FILTERED_ENTRIES \o <<" ", "G">>,
      FILTERED_ENTRIES \o <<" ", " ", "g", "H", " ">>,
      FILTERED_ENTRIES \o <<" ", "g", "o">>,
      FILTERED_ENTRIES \o <<" ", "g", "i", "t", "h", "u", "b">> }

\* an Open session whose cache holds a refreshed listing, and a locate
\* request about to be served
MatcherStart ==
    /\ process = "alive"
    /\ waiting_for_password = FALSE
    /\ db_name = <<"v">>
    /\ \E lines \in Listings : entries = Normalize(lines)
    /\ daemon = "serving"
    /\ running = 0
    /\ pc = [h \in Conns |-> "new"]
    /\ data = [h \in Conns |-> << >>]
    /\ mode = [h \in Conns |-> "none"]
    /\ response = [h \in Conns |-> << >>]
    /\ wire = [h \in Conns |-> "none"]
    /\ sent = << >>
    /\ inflight = << >>
    /\ closer = 0
    /\ \E d \in LocateRequests :
          args = [call |-> "get_filtered_entries", data |-> Strip(d),
                  out |-> "pending"]

\* the locate branch of _handler: the term is cut from the line, the
\* cache filtered, the survivors sorted by score and joined
Locate ==
    /\ args.call = "get_filtered_entries"
    /\ args.out = "pending"
    /\ LET term == Term(args.data)
       IN  args' = [call     |-> "get_filtered_entries",
                    data     |-> args.data,
                    out      |-> "returned",
                    term     |-> term,
                    listed   |-> SortedByKey(term, FilterEntries(term, entries)),
                    response |-> get_filtered_entries(term, entries)]
    /\ UNCHANGED vars

SpecMatcher == MatcherStart /\ [][Locate]_allvars

\* ------------------------------------------------ starting the daemon
\* Variant of open_db that spawns the tool without looking at the path
open_db_unchecked(a) ==
    IF ~a.tool THEN [out |-> "ExceptionPexpect", argv |-> << >>]
    ELSE [out  |-> "spawned",
          argv |-> <<"open">>
                   \o (IF a.key_file THEN <<"-k", "key_file">> ELSE << >>)
                   \o (IF a.yubikey THEN <<"-y", "yubikey">> ELSE << >>)
                   \o <<"db">>]

\* open_db: ValueError when the database path does not exist; otherwise
\* the argument list is built and keepassxc-cli spawned, which pexpect
\* refuses with ExceptionPexpect when the binary cannot be started
open_db(a) ==
    IF ~a.exists THEN [out |-> "ValueError", argv |-> << >>]
    ELSE IF ~a.tool THEN [out |-> "ExceptionPexpect", argv |-> << >>]
    ELSE [out  |-> "spawned",
          argv |-> <<"open">>
                   \o (IF a.key_file THEN <<"-k", "key_file">> ELSE << >>)
                   \o (IF a.yubikey THEN <<"-y", "yubikey">> ELSE << >>)
                   \o <<"db">>]

\* run_server has been called: nothing is spawned, no Handler exists and
\* no socket is bound.  exists: the database path exists; tool: the
\* keepassxc-cli binary can be started; key_file, yubikey: option given
RunServerCalled ==
    /\ process = "unspawned"
    /\ waiting_for_password = TRUE
    /\ db_name = << >>
    /\ entries = << >>
    /\ daemon = "starting"
    /\ running = 0
    /\ pc = [h \in Conns |-> "new"]
    /\ data = [h \in Conns |-> << >>]
    /\ mode = [h \in Conns |-> "none"]
    /\ response = [h \in Conns |-> << >>]
    /\ wire = [h \in Conns |-> "none"]
    /\ sent = << >>
    /\ inflight = << >>
    /\ closer = 0
    /\ \E e, t, k, y \in BOOLEAN :
          args = [call |-> "run_server", exists |-> e, tool |-> t,
                  key_file |-> k, yubikey |-> y, out |-> "called",
                  argv |-> << >>]

\* p = open_db(database, timeout, key_file, yubikey); an exception ends
\* run_server
OpenDb ==
    /\ args.call = "run_server"
    /\ args.out = "called"
    /\ LET r == open_db(args)
       IN  /\ args' = [args EXCEPT !.out = r.out, !.argv = r.argv]
           /\ process' = IF r.out = "spawned" THEN "alive" ELSE process
           /\ daemon' = IF r.out = "spawned" THEN daemon ELSE "failed"
    /\ UNCHANGED <<waiting_for_password, db_name, entries, running, pc, data,
                   mode, response, wire, sent, inflight, closer>>

\* h = Handler(p, pid_file); asyncio.run(h.async_server()): the Handler
\* is constructed around the spawned process and the socket bound; the
\* arguments of run_server play no part from here on
Serve ==
    /\ args.call = "run_server"
    /\ args.out = "spawned"
    /\ daemon = "starting"
    /\ waiting_for_password' = TRUE
    /\ db_name' = << >>
    /\ entries' = << >>
    /\ daemon' = "serving"
    /\ args' = [call |-> "run_server", exists |-> TRUE, tool |-> TRUE,
                key_file |-> FALSE, yubikey |-> FALSE, out |-> "serving",
                argv |-> << >>]
    /\ UNCHANGED <<process, running, pc, data, mode, response, wire, sent,
                   inflight, closer>>

NextRun == OpenDb \/ Serve \/ Next

SpecRun == RunServerCalled /\ [][NextRun]_allvars

\* ------------------------------------------ Handler.quit called directly
\* the sessions a Handler can be in between two requests: Locked before
\* the password; Open with a refreshed cache; closed after a wrong
\* password (the listing read, no database name) or after a quit
SessionKinds == {"locked", "open", "closed_wrong", "closed_quit"}

QuitStart ==
    /\ \E st \in SessionKinds, lines \in Listings :
          /\ process = IF st \in {"locked", "open"} THEN "alive" ELSE "none"
          /\ waiting_for_password = (st \in {"locked", "closed_wrong"})
          /\ db_name = IF st \in {"locked", "closed_wrong"} THEN << >> ELSE <<"v">>
          /\ entries = IF st = "locked" THEN << >> ELSE Normalize(lines)
    /\ daemon = "serving"
    /\ running = 0
    /\ pc = [h \in Conns |-> "new"]
    /\ data = [h \in Conns |-> << >>]
    /\ mode = [h \in Conns |-> "none"]
    /\ response = [h \in Conns |-> << >>]
    /\ wire = [h \in Conns |-> "none"]
    /\ sent = << >>
    /\ inflight = << >>
    /\ closer = 0
    /\ args = [call |-> "quit", out |-> "pending"]

\* Handler.quit(), called by no connection's handler (0): with
\* self.process None, `self.process.sendline` raises AttributeError
\* before anything else happens
QuitCall ==
    /\ args.call = "quit"
    /\ IF process = "none"
       THEN /\ args' = [call |-> "quit", out |-> "AttributeError"]
            /\ UNCHANGED vars
       ELSE /\ Quit(0)
            /\ args' = [call |-> "quit", out |-> "returned"]
            /\ UNCHANGED <<waiting_for_password, db_name, entries, daemon,
                           running, pc, data, mode, response, wire>>

SpecQuit == QuitStart /\ [][QuitCall]_allvars

\* ------------------------------------------------ client: load_config
\* Python's None, and the path DEFAULT_PID_PATH
None == "None"
DEFAULT_PID_PATH == "kdbx.pid"

\* KEEPASSXCCLI2_ITEMS
KEEPASSXCCLI2_ITEMS == {"db", "pid_file", "key_file", "yubikey", "timeout"}

KEEPASSXCCLI2_CONFIG_NONAME_SECTION == "noname"

KEEPASSXCCLI2_CONFIG_NONAME ==
    [db |-> None, pid_file |-> DEFAULT_PID_PATH, key_file |-> None,
     yubikey |-> None, timeout |-> None]

\* a source that sets nothing: an unset environment, a missing file, a
\* file without the section
Unset == [k \in KEEPASSXCCLI2_ITEMS |-> None]

\* Variant of DefaultFor giving every section the defaults of 'noname'
DefaultForAny(name) == KEEPASSXCCLI2_CONFIG_NONAME

\* {NONAME_SECTION: KEEPASSXCCLI2_CONFIG_NONAME}.get(name, {}), read with
\* default.get(key, None)
DefaultFor(name) ==
    IF name = KEEPASSXCCLI2_CONFIG_NONAME_SECTION
    THEN KEEPASSXCCLI2_CONFIG_NONAME
    ELSE Unset

\* bool(v) for None and strings
Truthy(v) == v # None /\ v # ""

\* a or b
Or(a, b) == IF Truthy(a) THEN a ELSE b

\* Variant of ReadFiles in which the first file that has an option keeps it
RECURSIVE ReadFilesFirstWins(_)
ReadFilesFirstWins(files) ==
    IF files = << >> THEN Unset
    ELSE LET rest == ReadFilesFirstWins(Tail(files))
         IN  [k \in KEEPASSXCCLI2_ITEMS |->
                 IF Head(files)[k] # None THEN Head(files)[k] ELSE rest[k]]

\* ConfigParser.read(files) seen through the requested section: the files
\* are parsed in order and every option a file has replaces the option
\* read before, whatever its value
RECURSIVE ReadFiles(_)
ReadFiles(files) ==
    IF files = << >> THEN Unset
    ELSE LET n    == Len(files)
             init == ReadFiles(SubSeq(files, 1, n - 1))
         IN  [k \in KEEPASSXCCLI2_ITEMS |->
                 IF files[n][k] # None THEN files[n][k] ELSE init[k]]

\* the texts float() accepts among those of the model, as tenths
Numeric == {"1", "2", "3", "4"}

Float(t) ==
    CASE t = "1" -> 10
      [] t = "2" -> 20
      [] t = "3" -> 30
      [] t = "4" -> 40

\* load_config(name, config_file) in environment env with the two home
\* files as given; timeout in tenths
load_config(a) ==
    LET files  == <<a.dotconfig, a.home>>
                  \o (IF a.config_file.given THEN <<a.config_file.content>>
                      ELSE << >>)
        c      == ReadFiles(files)
        res    == [k \in KEEPASSXCCLI2_ITEMS |->
                      Or(Or(a.env[k], c[k]), DefaultFor(a.name)[k])]
    IN  IF ~Truthy(res["pid_file"]) THEN [out |-> "ValueError"]
        ELSE IF Truthy(res["timeout"]) /\ res["timeout"] \notin Numeric
             THEN [out |-> "ValueError"]
        ELSE [out      |-> "returned",
              db       |-> res["db"],
              pid_file |-> res["pid_file"],
              key_file |-> res["key_file"],
              yubikey  |-> res["yubikey"],
              timeout  |-> IF Truthy(res["timeout"])
                           THEN Float(res["timeout"]) ELSE 3]

\* what one source may hold for the requested section: nothing; every
\* option, with text v and timeout n; every option, empty; the pid_file
\* alone; a database, an empty pid_file and a timeout that is no number
Profiles(v, n) ==
    { Unset,
      [db |-> v, pid_file |-> v, key_file |-> v, yubikey |-> v, timeout |-> n],
      [k \in KEEPASSXCCLI2_ITEMS |-> ""],
      [db |-> None, pid_file |-> v, key_file |-> None, yubikey |-> None,
       timeout |-> None],
      [db |-> v, pid_file |-> "", key_file |-> None, yubikey |-> None,
       timeout |-> "abc"] }

SectionNames == {KEEPASSXCCLI2_CONFIG_NONAME_SECTION, "work"}

\* the client is about to call load_config
ConfigStart ==
    /\ Init
    /\ \E name \in SectionNames,
          e \in Profiles("e", "1"),
          x \in Profiles("x", "2"),
          given \in BOOLEAN,
          h \in Profiles("h", "3"),
          d \in Profiles("c", "4") :
          /\ (~given => x = Unset)
          /\ args = [call |-> "load_config", name |-> name, env |-> e,
                     config_file |-> [given |-> given, content |-> x],
                     home |-> h, dotconfig |-> d, out |-> [out |-> "pending"]]

LoadConfig ==
    /\ args.call = "load_config"
    /\ args.out.out = "pending"
    /\ args' = [args EXCEPT !.out = load_config(args)]
    /\ UNCHANGED vars

SpecConfig == ConfigStart /\ [][LoadConfig]_allvars

\* ---------------------------------------- Handler.result on its own
\* how many chunks are read before the timeout, and how long a chunk is
MaxChunks == 2
MaxChunkLen == 3

\* process.before after each expect(): text up to the next line
\* terminator
Chunks == UNION {[1 .. n -> {"v", ">"}] : n \in 0 .. MaxChunkLen}

ChunkSeqs == UNION {[1 .. n -> Chunks] : n \in 0 .. MaxChunks}

\* result() is about to run; the tool will print `chunks` and fall silent
ResultStart ==
    /\ Init
    /\ \E cs \in ChunkSeqs :
          args = [call |-> "result", chunks |-> cs, out |-> "pending",
                  db |-> << >>, lines |-> << >>]

\* the loop collects the chunks until TIMEOUT, then db and lines are cut
ReadBlock ==
    /\ args.call = "result"
    /\ args.out = "pending"
    /\ args' = [args EXCEPT !.out = "returned",
                            !.db = result(args.chunks).db,
                            !.lines = result(args.chunks).lines]
    /\ UNCHANGED vars

SpecResult == ResultStart /\ [][ReadBlock]_allvars

\* ------------------------------------ the read loop of Handler.result
\* how many chunks of the growing list `lines` are recorded; of the reads
\* beyond only the parity is kept
MaxReads == 4

\* result() is about to run: the tool will print `chunks` and then either
\* fall silent or have exited
ReadLoopStart ==
    /\ Init
    /\ \E cs \in ChunkSeqs, e \in {"silent", "exited"} :
          args = [call |-> "result_loop", chunks |-> cs, ending |-> e,
                  lines |-> << >>, out |-> "reading", db |-> << >>,
                  odd |-> FALSE]

\* one turn of `while True`: expect([crlf, delimiter]) and, if it returns,
\* lines.append(before).  delimiter is pexpect's EOF: with output left the
\* next chunk is matched; on silence expect raises TIMEOUT, which ends the
\* loop, and db and lines are cut; once the tool has exited expect matches
\* EOF at once, again and again, with an empty `before`
Expect ==
    /\ args.call = "result_loop"
    /\ args.out = "reading"
    /\ IF args.chunks # << >>
       THEN args' = [args EXCEPT !.chunks = Tail(args.chunks),
                                 !.lines = Append(args.lines, Head(args.chunks))]
       ELSE IF args.ending = "silent"
       THEN args' = [args EXCEPT !.out = "returned",
                                 !.db = result(args.lines).db,
                                 !.lines = result(args.lines).lines]
       ELSE IF Len(args.lines) < MaxReads
       THEN args' = [args EXCEPT !.lines = Append(args.lines, << >>)]
       ELSE args' = [args EXCEPT !.odd = ~args.odd]
    /\ UNCHANGED vars

\* the loop runs without interruption: every turn that can be taken is taken
SpecReadLoop == ReadLoopStart /\ [][Expect]_allvars /\ WF_allvars(Expect)

\* ------------------------------------------------ client: call_server
\* Variant of RetryTryPrepare in which the retry may respawn again
RetryTryPrepareAgain == TRUE

\* the try_prepare argument of the retry: self.call_server(cmd, False)
RetryTryPrepare == FALSE

\* What the client meets during one call of call_server:
\*   listening    a daemon accepts at pid_file when the call starts
\*   db           Client.db is set
\*   no_prompt, window_for_password   the Client's flags
\*   db_prompt    the answer to click.prompt("Open database")
\*   spawned      the daemon started by Popen accepts after sleep(1)
\*   password     the password entry: a text, or cancelled
\*   answer       the daemon's reply to the password: SUCCESS..., another
\*                text or nothing read, or no reply ever (a daemon that
\*                never leaves result())
\*   still        the daemon still accepts when the command is retried
Encounters ==
    [listening : BOOLEAN, db : BOOLEAN, no_prompt : BOOLEAN,
     window_for_password : BOOLEAN, db_prompt : {"path", "abort"},
     spawned : BOOLEAN, password : {"text", "cancel"},
     answer : {"SUCCESS", "other", "never"}, still : BOOLEAN]

\* call_server(cmd) is entered with try_prepare = True
CallServerStart ==
    /\ Init
    /\ \E e \in Encounters :
          args = [call |-> "call_server", env |-> e, stage |-> "connect",
                  try_prepare |-> TRUE, prepares |-> 0, retries |-> 0,
                  error |-> "none"]

\* the call ends with exception x
Raise(x) == args' = [args EXCEPT !.stage = "raised", !.error = x]

\* call_server: connect; on success the command is sent and the response
\* read to the end; on FileNotFoundError or ConnectionRefusedError
\* prepare_server is called if try_prepare, RuntimeError raised otherwise
Connect ==
    /\ args.call = "call_server"
    /\ args.stage = "connect"
    /\ LET up == IF args.retries = 0 THEN args.env.listening ELSE args.env.still
       IN  IF up THEN args' = [args EXCEPT !.stage = "returned"]
           ELSE IF args.try_prepare
                THEN args' = [args EXCEPT !.stage = "prepare",
                                          !.prepares = args.prepares + 1]
                ELSE Raise("RuntimeError")
    /\ UNCHANGED vars

\* prepare_server: without a database it returns False under no_prompt
\* (call_server then raises RuntimeError) and asks for the path otherwise
PrepareDb ==
    /\ args.call = "call_server"
    /\ args.stage = "prepare"
    /\ IF args.env.db THEN args' = [args EXCEPT !.stage = "spawn"]
       ELSE IF args.env.no_prompt THEN Raise("RuntimeError")
       ELSE IF args.env.db_prompt = "abort" THEN Raise("Abort")
       ELSE args' = [args EXCEPT !.stage = "spawn"]
    /\ UNCHANGED vars

\* prepare_server: Popen of the server, sleep(1), connect; RuntimeError
\* when nothing accepts
SpawnServer ==
    /\ args.call = "call_server"
    /\ args.stage = "spawn"
    /\ IF args.env.spawned THEN args' = [args EXCEPT !.stage = "password"]
       ELSE Raise("RuntimeError")
    /\ UNCHANGED vars

\* prepare_server: the password comes from the dialog (None when
\* cancelled, and None.encode() raises AttributeError), from click.prompt
\* (Abort when cancelled), or under no_prompt the method returns False
AskPassword ==
    /\ args.call = "call_server"
    /\ args.stage = "password"
    /\ IF args.env.window_for_password
       THEN IF args.env.password = "cancel" THEN Raise("AttributeError")
            ELSE args' = [args EXCEPT !.stage = "sent"]
       ELSE IF ~args.env.no_prompt
       THEN IF args.env.password = "cancel" THEN Raise("Abort")
            ELSE args' = [args EXCEPT !.stage = "sent"]
       ELSE Raise("RuntimeError")
    /\ UNCHANGED vars

\* prepare_server: the password is sent and recv(1024) waits for the
\* reply; on SUCCESS call_server retries the command, otherwise it raises
Answer ==
    /\ args.call = "call_server"
    /\ args.stage = "sent"
    /\ CASE args.env.answer = "never" ->
                args' = [args EXCEPT !.stage = "blocked"]
         [] args.env.answer = "SUCCESS" ->
                args' = [args EXCEPT !.stage = "connect",
                                     !.try_prepare = RetryTryPrepare,
                                     !.retries = args.retries + 1]
         [] OTHER -> Raise("RuntimeError")
    /\ UNCHANGED vars

NextClient == Connect \/ PrepareDb \/ SpawnServer \/ AskPassword \/ Answer

SpecClient == CallServerStart /\ [][NextClient]_allvars

\* ------------------------------------------------------------ claims
\* the states of the session state machine
Locked == process = "alive" /\ waiting_for_password
Open == process = "alive" /\ ~waiting_for_password
Closed == process = "none"

\* this step resumes h with its request line and takes a branch
Dispatched(h) ==
    /\ pc[h] = "reading"
    /\ mode'[h] # "none"

\* h is between the dispatch of its request and the end of its work
Engaged(h) == pc[h] \notin {"new", "reading", "done", "failed"}

\* C1: at every instant at most one command is in flight on the channel,
\* and it belongs to the handler the event loop is executing: no other
\* handler can send or read before its response block has been read.
C1_OneCommandInFlight ==
    /\ Len(inflight) <= 1
    /\ \A i \in 1 .. Len(inflight) : inflight[i] = running

\* a command is in flight while another connection's handler is suspended
\* in the middle of its own request
C1_Witness ==
    \E h, k \in Conns :
        /\ h # k
        /\ pc[h] = "cmd_sent"
        /\ inflight = <<h>>
        /\ pc[k] = "draining"

\* C2: from the dispatch of a request until its handler has finished its
\* work on the session, no other connection's request is dispatched: at
\* most one handler is engaged.
C2_OneRequestAtATime ==
    \A h, k \in Conns : (Engaged(h) /\ Engaged(k)) => h = k

\* C3: while Locked, the request line a handler is resumed with is passed
\* to set_password as the password whatever its text, and no handler is
\* on a verb branch while the password is still awaited.
C3_FirstLineIsPassword ==
    [][\A h \in Conns :
        /\ (Locked /\ Dispatched(h)) =>
              /\ mode'[h] = "password"
              /\ pc'[h] = "pw_sent"
              /\ sent' = <<[by |-> h, via |-> "set_password", text |-> data'[h]]>>
        /\ (waiting_for_password' /\ process' = "alive") =>
              mode'[h] \in {"none", "password"}]_vars

\* a line reading 'quit' was sent to the tool as the password
C3_Witness ==
    \E h \in Conns :
        /\ pc[h] = "pw_sent"
        /\ data[h] = <<"q", "u", "i", "t">>
        /\ sent = <<[by |-> h, via |-> "set_password", text |-> <<"q", "u", "i", "t">>]>>

\* C4: the step of set_password that reads the listing after the password
\* leaves the session Open exactly when the resolved prompt fragment
\* (db_name) is non-empty; the listing was then requested and read in the
\* transition and the response is 'SUCCESS: Database <db_name> is now open'.
C4_PasswordOpens ==
    [][\A h \in Conns :
        (pc[h] = "pw_ls_sent" /\ pc'[h] = "respond") =>
            /\ (process' = "alive" /\ ~waiting_for_password') <=> (db_name' # << >>)
            /\ (db_name' # << >>) =>
                  /\ response'[h] = <<"SUCCESS: Database ">> \o db_name' \o <<" is now open">>
                  /\ sent = <<[by |-> h, via |-> "_refresh_cache", text |-> <<"l", "s">>]>>
                  /\ sent' = sent
                  /\ inflight' = << >>]_vars

\* the password was accepted for the database shown as 'v'
C4_Witness ==
    \E h \in Conns :
        /\ pc[h] = "respond"
        /\ mode[h] = "password"
        /\ Open
        /\ db_name = <<"v">>
        /\ entries = << <<"g", "h">>, <<"g", "o">> >>
        /\ response[h] = <<"SUCCESS: Database ", "v", " is now open">>

\* the session was closed by a rejected password
ClosedByWrongPassword == process = "none" /\ waiting_for_password

\* C5: a password whose listing shows no prompt fragment closes the
\* session with the wrong-password response; the session never leaves
\* Closed afterwards, and every later request is answered with the
\* closed-session message.
C5_WrongPasswordCloses ==
    [][\A h \in Conns :
        /\ (pc[h] = "pw_ls_sent" /\ pc'[h] = "respond" /\ db_name' = << >>) =>
              /\ process' = "none"
              /\ response'[h] = MsgWrongPassword
        /\ ClosedByWrongPassword => ClosedByWrongPassword'
        /\ (ClosedByWrongPassword /\ mode[h] = "closed" /\ pc[h] = "respond"
              /\ pc'[h] # pc[h]) =>
              /\ response[h] = MsgClosed
              /\ wire'[h] \in {"delivered", "broken"}]_vars

\* C6: a request handled while Closed is answered with the fixed
\* closed-session response, written to the client as a normal payload,
\* and its handler neither sends to nor reads from the channel.
C6_ClosedAnswered ==
    [][\A h \in Conns :
        /\ (Closed /\ Dispatched(h)) =>
              /\ response'[h] = MsgClosed
              /\ sent' = sent
              /\ inflight' = inflight
        /\ (mode[h] = "closed" /\ pc[h] = "respond" /\ pc'[h] # pc[h]) =>
              wire'[h] \in {"delivered", "broken"}]_vars

\* the password string of the model
Password == <<"p", "w">>

\* C7 as stated: once Open, the text of a request carrying a password
\* string is never sent to the external process.
C7_PasswordNeverForwarded ==
    [][\A h \in Conns :
        (Open /\ Dispatched(h) /\ data'[h] = Password) =>
            /\ sent' = sent
            /\ inflight' = inflight]_vars

\* C7 amended: once Open, no request is handled as a password submission:
\* waiting_for_password stays false, no line reaches the channel through
\* set_password, and a request carrying a password string is forwarded as
\* an ordinary raw command by call_command.
C7_AuthenticationOneShot ==
    [][Open =>
        /\ ~waiting_for_password'
        /\ sent' # sent => sent'[1].via # "set_password"
        /\ \A h \in Conns :
              (Dispatched(h) /\ data'[h] = Password) =>
                  /\ mode'[h] = "command"
                  /\ sent' = <<[by |-> h, via |-> "call_command", text |-> Password]>>]_vars

\* a password string sent while Open is in flight as a raw command
C7_Witness ==
    \E h \in Conns :
        /\ Open
        /\ pc[h] = "cmd_sent"
        /\ data[h] = Password
        /\ sent = <<[by |-> h, via |-> "call_command", text |-> Password]>>

\* the session was closed by a quit or close request
ClosedByQuit == process = "none" /\ ~waiting_for_password

\* C8: a quit or close request while Open sends quit, closes the channel,
\* leaves the session Closed with the response 'Database is closed', and
\* the listener accepts no connection afterwards.
C8_QuitStopsListener ==
    [][\A h \in Conns :
        /\ (Open /\ Dispatched(h)
              /\ (StartsWith(data'[h], QUIT) \/ StartsWith(data'[h], CLOSE))) =>
              /\ sent' = <<[by |-> h, via |-> "quit", text |-> QUIT]>>
              /\ process' = "none"
              /\ response'[h] = <<"Database is closed">>
        /\ ClosedByQuit => ~(pc[h] = "new" /\ pc'[h] = "reading")]_vars

\* C9: the daemon has exited only if the response of the request that
\* closed the session was handed to the socket in full and its connection
\* closed, or that client was already gone: the response is never left
\* unwritten or partly buffered when the daemon exits.
C9_ExitAfterResponse ==
    daemon = "exited" =>
        /\ closer # 0
        /\ \/ wire[closer] = "delivered" /\ pc[closer] = "done"
           \/ wire[closer] = "broken"

\* the daemon exited after delivering the closing request's response,
\* while another connection was still waiting for its line
C9_Witness ==
    /\ daemon = "exited"
    /\ closer # 0
    /\ wire[closer] = "delivered"
    /\ \E k \in Conns : pc[k] = "reading"

\* C10: an 'open ...' request dispatched while Open is answered with the
\* re-open message; no step of its handler forwards the request text or
\* changes process or waiting_for_password.
C10_OpenRejected ==
    [][\A h \in Conns :
        /\ (Open /\ Dispatched(h) /\ StartsWith(data'[h], OPEN)) =>
              /\ response'[h] = <<"Open is not supported. Close or quit database instead.">>
              /\ sent' = sent
              /\ inflight' = inflight
              /\ process' = "alive"
              /\ ~waiting_for_password'
        /\ (mode[h] = "open" /\ pc'[h] # pc[h]) =>
              /\ process' = process
              /\ waiting_for_password' = waiting_for_password
              /\ sent' # sent => sent'[1].text # data[h]]_vars

\* the re-open request was rejected, its handler went on to refresh the
\* cache and the session is still Open
C10_Witness ==
    \E h \in Conns :
        /\ mode[h] = "open"
        /\ pc[h] = "post_ls_sent"
        /\ data[h] = <<"o", "p", "e", "n", " ", "v">>
        /\ Open

\* C11: a 'locate_cached <term>' request dispatched while Open is served
\* from the cache alone: no step of its handler, from the dispatch until
\* the handler ends, sends a line to the channel or reads a block from it,
\* and process and waiting_for_password stay as they are.
C11_LocateNeverTouchesChannel ==
    [][\A h \in Conns :
        /\ (Open /\ Dispatched(h) /\ StartsWith(data'[h], FILTERED_ENTRIES)) =>
              /\ mode'[h] = "locate"
              /\ sent' = sent
              /\ inflight' = inflight
        /\ (mode[h] = "locate" /\ pc'[h] # pc[h]) =>
              /\ sent' = sent
              /\ inflight' = inflight
              /\ process' = process
              /\ waiting_for_password' = waiting_for_password]_vars

\* C12: while Open a line that is no control verb is sent to the tool by
\* call_command as it stands, its block is read before the response, and
\* the handler ends only through the cache refresh, which is complete
\* before any other connection's request is dispatched.
C12_RawCommandThenRefresh ==
    [][\A h \in Conns :
        /\ (Open /\ Dispatched(h) /\ mode'[h] = "command") =>
              /\ sent' = <<[by |-> h, via |-> "call_command", text |-> data'[h]]>>
              /\ inflight' = <<h>>
        /\ (mode[h] = "command" /\ pc[h] = "cmd_sent" /\ pc'[h] # pc[h]) =>
              /\ pc'[h] = "respond"
              /\ inflight' = << >>
        /\ (mode[h] = "command" /\ pc'[h] \in Finished /\ pc[h] \notin Finished) =>
              /\ pc[h] = "post_ls_sent"
              /\ sent = <<[by |-> h, via |-> "_refresh_cache", text |-> <<"l", "s">>]>>
        /\ \A k \in Conns :
              (k # h /\ mode[h] = "command" /\ Engaged(h)) => ~Dispatched(k)]_vars

\* the locate call has returned
Located == args.call = "get_filtered_entries" /\ args.out = "returned"

\* the term as the client typed it, blanks around it removed
TypedTerm == Strip(SubSeq(args.data, Len(FILTERED_ENTRIES) + 1, Len(args.data)))

\* t occurs in e when the case of letters is ignored
InIgnoringCase(t, e) ==
    \E i \in 1 .. (Len(e) - Len(t) + 1) :
        \A m \in 1 .. Len(t) : LowerChar(t[m]) = LowerChar(e[i + m - 1])

\* how often v occurs in xs
Count(xs, v) == Cardinality({i \in DOMAIN xs : xs[i] = v})

\* C13: what a locate returns is exactly the cached entries that contain
\* the term when case is ignored: every returned entry is such a cached
\* entry, and every such cached entry is returned as often as it is cached.
C13_FilterIsSubstringMatch ==
    Located =>
        /\ \A i \in DOMAIN args.listed :
              /\ \E j \in DOMAIN entries : entries[j] = args.listed[i]
              /\ InIgnoringCase(TypedTerm, args.listed[i])
        /\ \A j \in DOMAIN entries :
              InIgnoringCase(TypedTerm, entries[j]) =>
                  Count(args.listed, entries[j]) = Count(entries, entries[j])
        /\ args.response = Join(crlf, args.listed)

\* a typed term in capitals matched an entry the tool printed in mixed
\* case, inside the entry, while another cached entry was left out
C13_Witness ==
    /\ Located
    /\ TypedTerm = <<"g", "H">>
    /\ entries = <<<<"h", "g">>, <<"g", "h">>>>
    /\ args.listed = <<<<"g", "h">>>>

\* C14: for the term of a locate, the exact match scores 1 and every
\* cached entry other than the term scores strictly less, so that a cached
\* exact match is the first entry returned.
C14_ExactMatchStrictlyFirst ==
    Located =>
        /\ sort_entry_filter_key(args.term, args.term) = <<1, 1>>
        /\ \A j \in DOMAIN entries :
              entries[j] # args.term =>
                  FracLess(sort_entry_filter_key(args.term, entries[j]), <<1, 1>>)
        /\ (\E j \in DOMAIN entries : entries[j] = args.term) =>
              args.listed[1] = args.term

\* C15: in what a locate returns, every entry starting with the term
\* stands before every entry that only contains it.
C15_PrefixBeforeContained ==
    Located =>
        \A i, j \in DOMAIN args.listed :
            (/\ StartsWith(args.listed[i], args.term)
             /\ ~StartsWith(args.listed[j], args.term)) => i < j

\* C16: when run_server is called with a database path that does not
\* exist, the tool is never spawned, the daemon never serves (its socket is
\* never bound), no connection is accepted and nothing reaches a channel.
C16_NoDatabaseNoDaemon ==
    (args.call = "run_server" /\ ~args.exists) =>
        /\ process = "unspawned"
        /\ daemon \in {"starting", "failed"}
        /\ args.out \in {"called", "ValueError"}
        /\ \A h \in Conns : pc[h] = "new" /\ wire[h] = "none"
        /\ sent = << >>

\* run_server has failed on a missing database although the tool was
\* available
C16_Witness ==
    /\ args.call = "run_server"
    /\ ~args.exists
    /\ args.tool
    /\ args.out = "ValueError"
    /\ daemon = "failed"

\* C17: Handler.quit called on a session that is already Closed raises
\* no error, sends nothing and leaves the session Closed.
C17_QuitIdempotent ==
    [][(args.call = "quit" /\ Closed) =>
          /\ args'.out # "AttributeError"
          /\ Closed'
          /\ sent' = sent]_allvars

\* load_config has returned a configuration / has ended either way
ConfigReturned == args.call = "load_config" /\ args.out.out = "returned"

ConfigEnded == args.call = "load_config" /\ args.out.out # "pending"

\* the explicit config file as a source; nothing when none was given
Explicit == IF args.config_file.given THEN args.config_file.content ELSE Unset

\* the first value of vs that is neither None nor empty, None without one
FirstSet(vs) ==
    IF \E i \in DOMAIN vs : vs[i] \notin {None, ""}
    THEN vs[CHOOSE i \in DOMAIN vs :
                /\ vs[i] \notin {None, ""}
                /\ \A j \in 1 .. (i - 1) : vs[j] \in {None, ""}]
    ELSE None

\* the built-in default of an option
BuiltIn(k) ==
    IF args.name = "noname" /\ k = "pid_file" THEN DEFAULT_PID_PATH ELSE None

\* the option as the highest-ranking file that has it gives it
FileValue(k) ==
    IF Explicit[k] # None THEN Explicit[k]
    ELSE IF args.home[k] # None THEN args.home[k]
    ELSE args.dotconfig[k]

\* the configuration returned is the one chosen by `choice` for each option
ResolvedBy(choice(_)) ==
    /\ \A k \in {"db", "pid_file", "key_file", "yubikey"} :
          args.out[k] = choice(k)
    /\ IF choice("timeout") = None THEN args.out.timeout = 3
       ELSE /\ choice("timeout") \in Numeric
            /\ args.out.timeout = Float(choice("timeout"))

\* C18 as stated: every option of a returned configuration is the first
\* non-empty value along the environment variable, the explicit file,
\* ~/.keepassxccli2.ini, ~/.config/.keepassxccli2.ini and the built-in
\* default; timeout is a number, 0.3 when nothing sets it.
C18_FirstNonEmptyOfFiveSources ==
    ConfigReturned =>
        ResolvedBy(LAMBDA k : FirstSet(<<args.env[k], Explicit[k], args.home[k],
                                         args.dotconfig[k], BuiltIn(k)>>))

\* C18 amended: the files are merged first, an option of a higher-ranking
\* file replacing that of a lower one even when it is empty; every option
\* of a returned configuration is the first non-empty value along the
\* environment variable, the merged file value and the built-in default;
\* timeout is a number, 0.3 when nothing sets it.
C18_FirstNonEmptyAfterMerge ==
    ConfigReturned =>
        ResolvedBy(LAMBDA k : FirstSet(<<args.env[k], FileValue(k), BuiltIn(k)>>))

\* the explicit file's empty db hid the db of ~/.keepassxccli2.ini, and
\* its empty timeout the timeout set there
C18_Witness ==
    /\ ConfigReturned
    /\ args.env["db"] = None
    /\ Explicit["db"] = ""
    /\ args.home["db"] = "h"
    /\ args.out.db = None
    /\ args.home["timeout"] = "3"
    /\ args.out.timeout = 3

\* C19: for a section other than 'noname' for which neither the
\* environment nor any config file gives a pid_file, load_config ends with
\* ValueError and returns nothing.
C19_NoPidFileRaises ==
    (/\ ConfigEnded
     /\ args.name # "noname"
     /\ \A src \in {args.env, Explicit, args.home, args.dotconfig} :
           src["pid_file"] \in {None, ""}) =>
        args.out = [out |-> "ValueError"]

\* section 'work' exists in no file and the environment is empty
C19_Witness ==
    /\ ConfigEnded
    /\ args.name = "work"
    /\ args.env = Unset /\ Explicit = Unset
    /\ args.home = Unset /\ args.dotconfig = Unset
    /\ args.out.out = "ValueError"

\* result() has returned
BlockRead == args.call = "result" /\ args.out = "returned"

\* C20: of the chunks read before quiescence, result returns as prompt
\* fragment the text of the first chunk before its last '>' (nothing when
\* there is no chunk or no '>' in the first), and as lines the chunks after
\* the first, in order.
C20_ResultSplitsBlock ==
    BlockRead =>
        LET cs == args.chunks
            n  == Len(args.db)
        IN  /\ Len(args.lines) = (IF cs = << >> THEN 0 ELSE Len(cs) - 1)
            /\ \A i \in DOMAIN args.lines : args.lines[i] = cs[i + 1]
            /\ IF cs = << >> THEN args.db = << >>
               ELSE IF \A j \in DOMAIN cs[1] : cs[1][j] # ">" THEN args.db = << >>
               ELSE /\ n < Len(cs[1])
                    /\ \A j \in 1 .. n : args.db[j] = cs[1][j]
                    /\ cs[1][n + 1] = ">"
                    /\ \A j \in (n + 2) .. Len(cs[1]) : cs[1][j] # ">"

\* the first chunk held two '>' and a second chunk followed
C20_Witness ==
    /\ BlockRead
    /\ args.chunks = <<<<"v", ">", ">">>, <<">", "v">>>>
    /\ args.db = <<"v", ">">>
    /\ args.lines = <<<<">", "v">>>>

\* C23 as stated: whenever the session is Open, db_name is not empty.
C23_OpenHasName == Open => db_name # << >>

\* C23 amended: db_name is not empty when the session becomes Open; while
\* it stays Open db_name changes only where a handler ends with the refresh
\* after its response, which stores whatever prompt fragment it read.
C23_NameSetOnOpening ==
    [][/\ (~Open /\ Open') => db_name' # << >>
       /\ (Open /\ Open' /\ db_name' # db_name) =>
             \E h \in Conns : pc[h] = "post_ls_sent" /\ pc'[h] = "done"]_vars

\* a refresh after a response read no prompt: the session is Open without
\* a name, its cache replaced by the (empty) listing
C23_Witness ==
    /\ Open
    /\ db_name = << >>
    /\ \E h \in Conns : pc[h] = "done" /\ wire[h] = "delivered"

\* C24: a step in which a handler waiting for its request line ends
\* because the client closed the connection first leaves process,
\* waiting_for_password, db_name and the cache as they are, writes nothing
\* to the channel or the socket, and leaves the daemon serving with the
\* event loop free for the next connection.
C24_AbortedConnectionChangesNothing ==
    [][\A h \in Conns :
        (pc[h] = "reading" /\ pc'[h] = "failed") =>
            /\ process' = process
            /\ waiting_for_password' = waiting_for_password
            /\ db_name' = db_name
            /\ entries' = entries
            /\ sent' = sent
            /\ inflight' = inflight
            /\ wire'[h] = "none"
            /\ daemon' = "serving"
            /\ running' = 0]_vars

\* a connection was closed without a request while the session was Open,
\* and a later connection got its response and its refresh
C24_Witness ==
    \E h, k \in Conns :
        /\ h < k
        /\ pc[h] = "failed" /\ wire[h] = "none"
        /\ pc[k] = "done" /\ wire[k] = "delivered"
        /\ Open
        /\ db_name = <<"v">>
        /\ daemon = "serving"

\* C21: the read loop of result ends after finitely many reads, whether
\* the tool falls silent or has exited: result eventually returns.
C21_ResultTerminates ==
    (args.call = "result_loop") ~> (args.out = "returned")

\* a call of call_server is under way or over
InCallServer == args.call = "call_server"

\* C22 as stated: call_server calls prepare_server only after a failed
\* connect, at most once, and retries the command at most once; it never
\* hangs, and whenever it ends without a response it raises RuntimeError.
C22_OneRespawnElseRuntimeError ==
    InCallServer =>
        /\ args.prepares <= 1
        /\ args.retries <= 1
        /\ (args.prepares = 1) => ~args.env.listening
        /\ args.stage # "blocked"
        /\ (args.stage = "raised") => args.error = "RuntimeError"

\* C22 amended: call_server calls prepare_server only after a failed
\* connect, at most once, and retries the command at most once, only
\* after a SUCCESS reply; a retry that cannot connect, a prepare_server
\* that returns False and a spawned daemon that does not accept end in
\* RuntimeError.  A cancelled password dialog ends in AttributeError, a
\* cancelled prompt in Abort, and a daemon that never replies to the
\* password leaves the call waiting.
C22_OneRespawnOneRetry ==
    InCallServer =>
        /\ args.prepares <= 1
        /\ args.retries <= 1
        /\ (args.prepares = 1) => ~args.env.listening
        /\ (args.retries = 1) => (args.prepares = 1 /\ args.env.answer = "SUCCESS")
        /\ (args.stage = "returned") =>
              IF args.retries = 0 THEN args.env.listening ELSE args.env.still
        /\ (args.stage = "blocked") => args.env.answer = "never"
        /\ (args.stage = "raised") =>
              /\ ~args.env.listening
              /\ args.error \in {"RuntimeError", "AttributeError", "Abort"}
              /\ (args.error = "AttributeError") =>
                    (args.env.window_for_password /\ args.env.password = "cancel")
              /\ (args.error = "Abort") =>
                    \/ (~args.env.db /\ args.env.db_prompt = "abort")
                    \/ (~args.env.window_for_password
                        /\ args.env.password = "cancel")
              /\ (args.retries = 1) => (args.error = "RuntimeError" /\ ~args.env.still)

\* the endpoint was stale, the daemon was respawned and opened, and the
\* one retry found no listener: RuntimeError after one respawn
C22_Witness ==
    /\ InCallServer
    /\ args.stage = "raised"
    /\ args.error = "RuntimeError"
    /\ args.prepares = 1
    /\ args.retries = 1
    /\ ~args.env.still

====
